---- MODULE Spec2Model ----
(***************************************************************************)
(* Model of the mic-to-token pipeline of dtang04/iota: the transcription   *)
(* providers (src/src/transcription.py), the tokenizer wrapper             *)
(* (src/src/tokenization.py), the Ollama summarization client              *)
(* (src/src/summarization.py) and the three front ends that sequence them  *)
(* (src/src/app.py, src/src/gui.py, src/web_server.py).                    *)
(*                                                                         *)
(* A text is a sequence of characters.  A character is a one-letter        *)
(* string; the two non-ASCII characters the model needs are named:         *)
(* "I_DOT" is U+0130 (capital I with dot above) and "COMB_DOT" is U+0307   *)
(* (combining dot above), the pair Python's str.lower() maps U+0130 to.    *)
(***************************************************************************)
EXTENDS Integers, Sequences, FiniteSets, TLC

VARIABLES
    inp,            \* the inputs of one pipeline invocation (front end, form fields, backends' behaviour)
    pc,             \* the position of the invocation in its front end's handler
    calls,          \* the stage calls made so far, in order
    transcription,  \* the value transcribe returned or the exception it raised
    tokenizer,      \* the LLMTokenizer constructed, or the exception its construction raised
    token_result,   \* the TokenizationResult of encode
    transcriber,    \* the transcription provider the front end built
    summary_result, \* what summarize_with_ollama returned or raised
    diag,           \* diagnostics surfaced to the caller (log lines, status texts)
    outcome,        \* how the invocation ended and what it delivered
    reply,          \* summarization client on its own: the Ollama endpoint's behaviour
    sum_out,        \* summarization client on its own: summarize_with_ollama's outcome
    split_out,      \* summarization client on its own: _split_summary_answer's value
    norm_out,       \* summarization client on its own: _normalize_summary applied once and twice
    tok_in,         \* tokenizer on its own: the text and the LLMTokenizer
    tok_out,        \* tokenizer on its own: what encode returned or raised
    dec_out,        \* tokenizer on its own: what decode made of encode's tokens
    prov_in,        \* provider on its own: the provider, the audio buffer, the backend's behaviour
    prov_pc,        \* provider on its own: the position inside transcribe
    tmp_files,      \* provider on its own: the temporary files on disk
    model_audio,    \* provider on its own: the array handed to the local Whisper model
    prov_out,       \* provider on its own: what transcribe returned or raised
    cap_in,         \* fixed-duration capture: the duration asked for, the configuration, the device
    cap_log,        \* fixed-duration capture: the operations made on input streams, in order
    rec,            \* the StreamingMicrophoneRecorder: _stream, _buffer, the call in progress, what the last call returned
    gui,            \* the AudioGuiApp: is_recording, the buttons, the pending Tk callbacks, the workers
    hist            \* what has happened to the recorder: chunks delivered, the last call, faults met

vars == <<inp, pc, calls, transcriber, transcription, tokenizer, token_result, summary_result, diag,
          outcome, reply, sum_out, split_out, norm_out, tok_in, tok_out, dec_out,
          prov_in, prov_pc, tmp_files, model_audio, prov_out, cap_in, cap_log,
          rec, gui, hist>>

pipeVars == <<inp, pc, calls, transcriber, transcription, tokenizer, token_result,
              summary_result, diag, outcome>>

sumVars == <<reply, sum_out, split_out, norm_out>>

tokVars == <<tok_in, tok_out, dec_out>>

\* the variables of the components checked on their own, besides the summarization client
provVars == <<prov_in, prov_pc, tmp_files, model_audio, prov_out>>

capVars == <<cap_in, cap_log>>

recVars == <<rec, gui, hist>>

\* the variables the recorder and the window leave alone
OtherVars == <<pipeVars, sumVars, tokVars, provVars, capVars>>

newVars == <<tokVars, provVars, capVars, recVars>>

nonPipeVars == <<sumVars, newVars>>

nonSumVars == <<pipeVars, newVars>>

----------------------------------------------------------------------------
(* Python values *)

None == [kind |-> "None"]

\* the value of a variable the specification at hand does not use
Idle == [kind |-> "idle"]

\* the pipeline has no invocation to run
PipeIdle ==
    /\ inp = Idle
    /\ pc = "idle"
    /\ calls = <<>>
    /\ transcriber = None
    /\ transcription = None
    /\ tokenizer = None
    /\ token_result = None
    /\ summary_result = None
    /\ diag = <<>>
    /\ outcome = None

\* the summarization client is not exercised on its own
SumIdle ==
    /\ reply = Idle
    /\ sum_out = None
    /\ split_out = None
    /\ norm_out = None

\* the tokenizer is not exercised on its own
TokIdle ==
    /\ tok_in = Idle
    /\ tok_out = None
    /\ dec_out = None

\* no fixed-duration capture is made
CapIdle ==
    /\ cap_in = Idle
    /\ cap_log = <<>>

\* there is no streaming recorder and no window
RecIdle ==
    /\ rec = Idle
    /\ gui = Idle
    /\ hist = Idle

\* no provider is exercised on its own
ProvIdle ==
    /\ prov_in = Idle
    /\ prov_pc = "idle"
    /\ tmp_files = {}
    /\ model_audio = None
    /\ prov_out = None

Str(s) == [kind |-> "str", val |-> s]

Raise(exc, msg, cause) == [kind |-> "raise", exc |-> exc, msg |-> msg, cause |-> cause]

Min(S) == CHOOSE x \in S : \A y \in S : x <= y

----------------------------------------------------------------------------
(* str methods, on the characters of the model *)

UpperLetters ==
    <<"A","B","C","D","E","F","G","H","I","J","K","L","M",
      "N","O","P","Q","R","S","T","U","V","W","X","Y","Z">>

LowerLetters ==
    <<"a","b","c","d","e","f","g","h","i","j","k","l","m",
      "n","o","p","q","r","s","t","u","v","w","x","y","z">>

\* str.lower() of one character: U+0130 lowers to two characters
LowerChar(c) ==
    IF \E i \in 1..26 : UpperLetters[i] = c
    THEN <<LowerLetters[CHOOSE i \in 1..26 : UpperLetters[i] = c]>>
    ELSE IF c = "I_DOT" THEN <<"i", "COMB_DOT">>
    ELSE <<c>>

RECURSIVE Lower(_)
Lower(s) == IF s = <<>> THEN <<>> ELSE LowerChar(Head(s)) \o Lower(Tail(s))

\* the characters str.strip() removes, among the model's characters
Whitespace == {" ", "\t", "\n", "\r"}

\* the line boundaries of str.splitlines(), among the model's characters
LineBreaks == {"\n", "\r"}

RECURSIVE LStripSet(_, _)
LStripSet(s, cs) ==
    IF s # <<>> /\ Head(s) \in cs THEN LStripSet(Tail(s), cs) ELSE s

RECURSIVE RStripSet(_, _)
RStripSet(s, cs) ==
    IF s # <<>> /\ s[Len(s)] \in cs THEN RStripSet(SubSeq(s, 1, Len(s) - 1), cs) ELSE s

Strip(s) == RStripSet(LStripSet(s, Whitespace), Whitespace)

StartsWith(s, prefix) ==
    Len(s) >= Len(prefix) /\ SubSeq(s, 1, Len(prefix)) = prefix

\* str.find: the 0-based index of the first occurrence, or -1
Find(hay, needle) ==
    LET hits == {i \in 0..(Len(hay) - Len(needle)) :
                    SubSeq(hay, i + 1, i + Len(needle)) = needle}
    IN  IF hits = {} THEN -1 ELSE Min(hits)

\* s[a:b] for 0 <= a, clamped to the length as Python does
Slice(s, a, b) ==
    LET hi == IF b < Len(s) THEN b ELSE Len(s)
    IN  IF a >= hi THEN <<>> ELSE SubSeq(s, a + 1, hi)

RECURSIVE SplitLines(_)
SplitLines(s) ==
    IF s = <<>> THEN <<>>
    ELSE LET brk == {i \in 1..Len(s) : s[i] \in LineBreaks}
         IN  IF brk = {} THEN <<s>>
             ELSE LET i == Min(brk)
                      w == IF s[i] = "\r" /\ i < Len(s) /\ s[i + 1] = "\n" THEN 2 ELSE 1
                  IN  <<SubSeq(s, 1, i - 1)>> \o SplitLines(Slice(s, i + w - 1, Len(s)))

RECURSIVE Join(_, _)
Join(lines, sep) ==
    IF lines = <<>> THEN <<>>
    ELSE IF Len(lines) = 1 THEN lines[1]
    ELSE lines[1] \o sep \o Join(Tail(lines), sep)

\* "".join(ss)
RECURSIVE Concat(_)
Concat(ss) == IF ss = <<>> THEN <<>> ELSE Head(ss) \o Concat(Tail(ss))

----------------------------------------------------------------------------
(* src/src/summarization.py *)

ANSWER_MARKER == <<"a","n","s","w","e","r",":">>

SUMMARY_TOKEN == <<"s","u","m","m","a","r","y">>

HEADING == <<"S","u","m","m","a","r","y",":">>

NA == <<"N","/","A">>

EMPTY_SUMMARY == HEADING \o <<"\n">> \o <<"-"," ">> \o NA

\* the loop body of _normalize_summary: the output line of one input line
NormalizeLine(line) ==
    LET stripped == Strip(line)
    IN  IF stripped = <<>> THEN <<>>
        ELSE IF Lower(stripped) = Lower(HEADING) THEN <<HEADING>>
        ELSE IF ~StartsWith(stripped, <<"-">>)
             THEN << <<"-"," ">> \o LStripSet(stripped, {"-", " "}) >>
        ELSE <<stripped>>

RECURSIVE NormalizeLines(_)
NormalizeLines(lines) ==
    IF lines = <<>> THEN <<>>
    ELSE NormalizeLine(Head(lines)) \o NormalizeLines(Tail(lines))

_normalize_summary(summary_raw) ==
    LET summary == Strip(summary_raw)
        headed  == IF ~StartsWith(Lower(summary), SUMMARY_TOKEN)
                   THEN HEADING \o <<"\n">> \o summary
                   ELSE summary
    IN  IF summary = <<>> THEN EMPTY_SUMMARY
        ELSE Join(NormalizeLines(SplitLines(headed)), <<"\n">>)

_split_summary_answer(response_text) ==
    LET lower      == Lower(response_text)
        answer_idx == Find(lower, ANSWER_MARKER)
        summary_raw == Strip(Slice(response_text, 0, answer_idx))
        answer_raw  == Strip(Slice(response_text, answer_idx + Len(ANSWER_MARKER),
                                   Len(response_text)))
    IN  IF answer_idx = -1
        THEN [summary |-> _normalize_summary(response_text), answer |-> NA]
        ELSE [summary |-> _normalize_summary(summary_raw),
              answer  |-> IF answer_raw = <<>> THEN NA ELSE answer_raw]

OLLAMA_DEFAULT_MODEL == "llama3"

\* summarize_with_ollama.  `model` is a model name, "" when the caller passed
\* None or an empty string (`model or os.getenv(...)` treats both alike);
\* `ep` is what the endpoint does with the one POST: requests.post raises
\* ("transport_error"), the status is an error one and raise_for_status raises
\* ("http_error"), the body is not JSON and response.json() raises
\* ("not_json"), or the body is a JSON object ("json") whose "response" is a
\* text or is missing (None).  The transcript only travels inside the prompt.
summarize_with_ollama(text, model, ep) ==
    LET target_model == IF model = "" THEN OLLAMA_DEFAULT_MODEL ELSE model
        cleaned_text == Strip(text)
        response     == IF ep.kind = "json" /\ ep.response.kind = "str"
                        THEN ep.response.val ELSE <<>>
        summary_text == Strip(response)
        parts        == _split_summary_answer(summary_text)
    IN  IF ep.kind = "transport_error"
        THEN Raise("SummarizationError", <<"Unable to reach local LLM summarizer">>, "ConnectionError")
        ELSE IF ep.kind = "http_error"
        THEN Raise("SummarizationError", <<"Unable to reach local LLM summarizer">>, "HTTPError")
        ELSE IF ep.kind = "not_json"
        THEN Raise("JSONDecodeError", <<"Expecting value">>, "None")
        ELSE IF summary_text = <<>>
        THEN Raise("SummarizationError", <<"Summarizer returned empty response">>, "None")
        ELSE [kind |-> "SummaryResult", summary |-> parts.summary,
              answer |-> parts.answer, model |-> target_model]

----------------------------------------------------------------------------
(* src/src/tokenization.py *)

\* tiktoken's registry, as far as the model needs it: the encodings
\* get_encoding knows and the models encoding_for_model knows
KnownEncodings == {"cl100k_base", "o200k_base", "p50k_base"}

KnownModels == {"gpt-4o-mini", "gpt-4", "text-davinci-003"}

\* tiktoken.get_encoding(name): ValueError for an unknown name
get_encoding(name) ==
    IF name \in KnownEncodings
    THEN [kind |-> "Encoding", name |-> name]
    ELSE Raise("ValueError", <<"Unknown encoding ", name>>, "None")

\* tiktoken.encoding_for_model(model): KeyError for an unknown model
encoding_for_model(model) ==
    IF model \in KnownModels
    THEN get_encoding(CASE model = "gpt-4o-mini" -> "o200k_base"
                       [] model = "gpt-4" -> "cl100k_base"
                       [] model = "text-davinci-003" -> "p50k_base")
    ELSE Raise("KeyError", <<"Could not automatically map to a tokeniser: ", model>>, "None")

DEFAULT_TOKENIZER_MODEL == "gpt-4o-mini"

FALLBACK_ENCODING == "cl100k_base"

\* LLMTokenizer.__init__ without the KeyError fallback
LLMTokenizer_init_no_fallback(model, encoding_name) ==
    LET target_model == IF model = "" THEN DEFAULT_TOKENIZER_MODEL ELSE model
        encoding     == IF encoding_name # "" THEN get_encoding(encoding_name)
                        ELSE encoding_for_model(target_model)
    IN  IF encoding.kind = "raise" THEN encoding
        ELSE [kind |-> "LLMTokenizer", encoding |-> encoding, encoding_name |-> encoding.name]

\* LLMTokenizer.__init__; "" stands for an argument that is None or empty
LLMTokenizer_init(model, encoding_name) ==
    LET target_model == IF model = "" THEN DEFAULT_TOKENIZER_MODEL ELSE model
        by_model     == encoding_for_model(target_model)
        encoding     == IF encoding_name # "" THEN get_encoding(encoding_name)
                        ELSE IF by_model.kind = "raise" /\ by_model.exc = "KeyError"
                             THEN get_encoding(FALLBACK_ENCODING)
                        ELSE by_model
    IN  IF encoding.kind = "raise" THEN encoding
        ELSE [kind |-> "LLMTokenizer", encoding |-> encoding, encoding_name |-> encoding.name]

\* The encodings are byte-level: a text is turned into its UTF-8 bytes and
\* the bytes are cut into tokens.  An ASCII byte is named by its character, any
\* other byte by its two hex digits.  Besides U+0130 and U+0307 the model has
\* "E_ACUTE" (U+00E9), "ZH" (U+4E2D) and "GRIN" (U+1F600).
MultiByteChars == {"E_ACUTE", "ZH", "GRIN", "I_DOT", "COMB_DOT"}

\* str.encode("utf-8") of one character
UTF8(c) ==
    CASE c = "E_ACUTE" -> <<"C3", "A9">>
      [] c = "ZH" -> <<"E4", "B8", "AD">>
      [] c = "GRIN" -> <<"F0", "9F", "98", "80">>
      [] c = "I_DOT" -> <<"C4", "B0">>
      [] c = "COMB_DOT" -> <<"CC", "87">>
      [] OTHER -> <<c>>

\* str.encode("utf-8")
Utf8Encode(text) == Concat([k \in DOMAIN text |-> UTF8(text[k])])

\* the bytes that are not ASCII
HighBytes == UNION { {UTF8(c)[k] : k \in DOMAIN UTF8(c)} : c \in MultiByteChars }

\* bytes.decode("utf-8", errors="replace"): a complete sequence gives its
\* character, a truncated sequence or a stray byte gives one U+FFFD
RECURSIVE Utf8Decode(_)
Utf8Decode(bytes) ==
    IF bytes = <<>> THEN <<>>
    ELSE IF bytes[1] \notin HighBytes THEN <<bytes[1]>> \o Utf8Decode(Tail(bytes))
    ELSE LET whole  == {c \in MultiByteChars : StartsWith(bytes, UTF8(c))}
             starts == {n \in 1..Len(bytes) :
                          \E c \in MultiByteChars :
                              n < Len(UTF8(c)) /\ SubSeq(bytes, 1, n) = SubSeq(UTF8(c), 1, n)}
         IN  IF whole # {}
             THEN LET c == CHOOSE x \in whole : TRUE
                  IN  <<c>> \o Utf8Decode(Slice(bytes, Len(UTF8(c)), Len(bytes)))
             ELSE IF starts # {}
             THEN <<"U+FFFD">> \o Utf8Decode(Slice(bytes, -Min({-n : n \in starts}), Len(bytes)))
             ELSE <<"U+FFFD">> \o Utf8Decode(Tail(bytes))

\* the text of the special token every encoding of the model has
ENDOFTEXT == <<"<", "|", "e", "n", "d", "o", "f", "t", "e", "x", "t", "|", ">">>

SpecialTokens == <<ENDOFTEXT>>

\* the byte strings of the ordinary tokens of every encoding of the model,
\* longer ones first; every byte is a token, and a token may end inside a
\* character
Vocabulary ==
    << <<"t", "e", "x", "t">>, <<"e", "n", "d">>,
       <<"h", "i">>, <<" ", "h">>, <<"C3", "A9">>, <<"E4", "B8">>, <<"F0", "9F">>, <<"98", "80">>,
       <<"h">>, <<"i">>, <<" ">>, <<"<">>, <<"|">>, <<">">>, <<"e">>, <<"n">>, <<"d">>, <<"o">>,
       <<"f">>, <<"t">>, <<"x">>, <<"\n">>, <<"-">>,
       <<"C3">>, <<"A9">>, <<"E4">>, <<"B8">>, <<"AD">>, <<"F0">>, <<"9F">>, <<"98">>, <<"80">>,
       <<"C4">>, <<"B0">>, <<"CC">>, <<"87">> >>

\* the id of the first token of an encoding (the encodings number their tokens differently)
FirstTokenId(name) ==
    CASE name = "cl100k_base" -> 100
      [] name = "o200k_base" -> 200
      [] name = "p50k_base" -> 50

\* the id of the k-th special token of an encoding
SpecialTokenId(name, k) == FirstTokenId(name) + Len(Vocabulary) + k

\* the ordinary tokens of a run of bytes: the first token that starts the
\* bytes, then the rest
RECURSIVE EncodeOrdinary(_, _)
EncodeOrdinary(encoding, bytes) ==
    IF bytes = <<>> THEN <<>>
    ELSE LET k == Min({j \in 1..Len(Vocabulary) : StartsWith(bytes, Vocabulary[j])})
         IN  <<FirstTokenId(encoding.name) + k>>
             \o EncodeOrdinary(encoding, Slice(bytes, Len(Vocabulary[k]), Len(bytes)))

\* the 0-based index at which the first special token text starts, or -1
FindSpecial(text) ==
    LET hits == {Find(text, SpecialTokens[k]) : k \in DOMAIN SpecialTokens} \ {-1}
    IN  IF hits = {} THEN -1 ELSE Min(hits)

\* Encoding.encode(text, allowed_special="all"): the text of a special token
\* becomes that token, the text between special tokens becomes ordinary tokens
RECURSIVE Encoding_encode(_, _)
Encoding_encode(encoding, text) ==
    LET at == FindSpecial(text)
    IN  IF text = <<>> THEN <<>>
        ELSE IF at = -1 THEN EncodeOrdinary(encoding, Utf8Encode(text))
        ELSE IF at > 0
        THEN EncodeOrdinary(encoding, Utf8Encode(Slice(text, 0, at)))
             \o Encoding_encode(encoding, Slice(text, at, Len(text)))
        ELSE LET k == Min({j \in DOMAIN SpecialTokens : StartsWith(text, SpecialTokens[j])})
             IN  <<SpecialTokenId(encoding.name, k)>>
                 \o Encoding_encode(encoding, Slice(text, Len(SpecialTokens[k]), Len(text)))

\* Encoding.encode(text) with the library's defaults (no special token
\* allowed, every one of them disallowed): ValueError for a text that holds the
\* text of a special token
Encoding_encode_default(encoding, text) ==
    IF FindSpecial(text) # -1
    THEN Raise("ValueError", <<"Encountered text corresponding to disallowed special token">>, "None")
    ELSE Encoding_encode(encoding, text)

\* the bytes of one token
TokenBytes(encoding, token) ==
    LET k == token - FirstTokenId(encoding.name)
    IN  IF k > Len(Vocabulary) THEN Utf8Encode(SpecialTokens[k - Len(Vocabulary)])
        ELSE Vocabulary[k]

\* Encoding.decode(tokens): the tokens' bytes joined, then decoded as UTF-8
\* with errors="replace"
Encoding_decode(encoding, tokens) ==
    Utf8Decode(Concat([k \in DOMAIN tokens |-> TokenBytes(encoding, tokens[k])]))

\* LLMTokenizer.encode calling the encoding without allowed_special="all"
LLMTokenizer_encode_default_special(tk, text) ==
    IF FindSpecial(text) # -1 THEN Encoding_encode_default(tk.encoding, text)
    ELSE [kind |-> "TokenizationResult",
          tokens |-> Encoding_encode_default(tk.encoding, text),
          encoding_name |-> tk.encoding_name]

\* LLMTokenizer.encode
LLMTokenizer_encode(tk, text) ==
    [kind |-> "TokenizationResult",
     tokens |-> Encoding_encode(tk.encoding, text),
     encoding_name |-> tk.encoding_name]

\* LLMTokenizer.decode
LLMTokenizer_decode(tk, tokens) == Encoding_decode(tk.encoding, tokens)

\* count() as the number of distinct token ids
TokenizationResult_count_distinct(tr) == Cardinality({tr.tokens[k] : k \in DOMAIN tr.tokens})

\* TokenizationResult.count
TokenizationResult_count(tr) == Len(tr.tokens)

----------------------------------------------------------------------------
(* src/src/transcription.py *)

\* A backend's behaviour for one invocation: the provider's constructor raises
\* ("ctor_raises"), the backend call raises ("raises"), or it answers with a
\* text that is missing (None) or given.

TranscriptionResult(text, language) ==
    [kind |-> "TranscriptionResult", text |-> text, language |-> language]

\* OpenAIWhisperTranscriber.transcribe
OpenAIWhisperTranscriber_transcribe(backend) ==
    IF backend.kind = "raises"
    THEN Raise("SpeechToTextError", <<"OpenAI transcription failed">>, "BackendError")
    ELSE IF backend.text = None \/ backend.text.val = <<>>
    THEN Raise("SpeechToTextError", <<"No transcription text returned">>, "None")
    ELSE TranscriptionResult(backend.text.val, backend.language)

\* WhisperLocalTranscriber.transcribe
WhisperLocalTranscriber_transcribe(backend) ==
    LET text == Strip(IF backend.text = None THEN <<>> ELSE backend.text.val)
    IN  IF backend.kind = "raises"
        THEN Raise("BackendError", <<"model.transcribe failed">>, "None")
        ELSE IF text = <<>>
        THEN Raise("SpeechToTextError", <<"Whisper returned empty transcription">>, "None")
        ELSE TranscriptionResult(text, backend.language)

\* An array is its dtype, its shape and its data: a sequence of frames, each a
\* sequence of one sample per channel, for a (frames x channels) array; a
\* sequence of samples for a one-dimensional array.  A float32 sample is
\* counted in halves of the step of 16-bit PCM, and the samples of a buffer are
\* whole steps (even counts), so that the float32 mean of two channels is exact.

ndim(a) == Len(a.shape)

RECURSIVE SumSeq(_)
SumSeq(xs) == IF xs = <<>> THEN 0 ELSE Head(xs) + SumSeq(Tail(xs))

\* ndarray.mean(axis=1) of a (frames x channels) array: float32 stays
\* float32, any other dtype of the model gives float64
mean_axis1(a) ==
    [dtype |-> IF a.dtype = "float32" THEN "float32" ELSE "float64",
     shape |-> <<a.shape[1]>>,
     data  |-> [k \in 1..a.shape[1] |-> SumSeq(a.data[k]) \div a.shape[2]]]

\* ndarray.astype(dtype, copy=False) between the float dtypes of the model
astype(a, dtype) == [a EXCEPT !.dtype = dtype]

\* ndarray.squeeze() of an array of at most one dimension: the axis of length
\* one is removed
squeeze(a) ==
    IF a.shape = <<1>> THEN [dtype |-> a.dtype, shape |-> <<>>, data |-> a.data[1]]
    ELSE a

\* the mono collapse that keeps the first channel instead of averaging
WhisperLocalTranscriber_mono_first_channel(audio) ==
    IF ndim(audio) > 1
    THEN [dtype |-> audio.dtype,
          shape |-> <<audio.shape[1]>>,
          data  |-> [k \in 1..audio.shape[1] |-> audio.data[k][1]]]
    ELSE squeeze(audio)

\* WhisperLocalTranscriber.transcribe, the array it hands the model
WhisperLocalTranscriber_mono(audio) ==
    LET original_dtype == audio.dtype
    IN  IF ndim(audio) > 1
        THEN astype(mean_axis1(audio), original_dtype)
        ELSE squeeze(audio)

\* the constructor of either provider
Construct(variant, backend) ==
    IF backend.kind = "ctor_raises"
    THEN Raise("BackendError", <<"provider construction failed">>, "None")
    ELSE [kind |-> "transcriber", variant |-> variant]

\* transcriber.transcribe(audio, sample_rate), dispatched on the provider
Transcribe(service, backend) ==
    IF service.variant = "openai"
    THEN OpenAIWhisperTranscriber_transcribe(backend)
    ELSE WhisperLocalTranscriber_transcribe(backend)

----------------------------------------------------------------------------
(* Provider selection of the three front ends *)

HTTPException(status, detail) ==
    [kind |-> "raise", exc |-> "HTTPException", msg |-> detail, cause |-> "None",
     status |-> status]

\* app.build_transcriber
build_transcriber(provider, backend) ==
    IF provider = "openai" THEN Construct("openai", backend)
    ELSE IF provider = "whisper-local" THEN Construct("whisper-local", backend)
    ELSE Raise("ValueError", <<"Unsupported provider: ", provider>>, "None")

\* AudioGuiApp._build_transcriber
_build_transcriber(provider, backend) ==
    IF provider = "openai" THEN Construct("openai", backend)
    ELSE IF provider = "whisper-local" THEN Construct("whisper-local", backend)
    ELSE Raise("ValueError", <<"Unsupported provider: ", provider>>, "None")

\* _select_transcriber with the cloud provider as the default branch
_select_transcriber_defaults_to_openai(provider, backend) ==
    IF provider = "whisper-local" THEN Construct("whisper-local", backend)
    ELSE Construct("openai", backend)

\* web_server._select_transcriber
_select_transcriber(provider, backend) ==
    IF provider = "openai" THEN Construct("openai", backend)
    ELSE IF provider = "whisper-local" THEN Construct("whisper-local", backend)
    ELSE HTTPException(400, <<"Unsupported provider: ", provider>>)

\* web_server._normalize_bool, on the lower-case values of the model
_normalize_bool(value) == value \in {"true", "1", "yes", "on"}

----------------------------------------------------------------------------
(* The pipeline of the three front ends: app.main (cli),                   *)
(* AudioGuiApp._process_audio (gui) and web_server.transcribe_audio (http).*)
(* One behaviour is one invocation; the audio is already captured or       *)
(* uploaded.  Name-valued inputs are strings, "" for None or empty.        *)

Bindings == {"cli", "gui", "http"}

\* the provider handed to the front end's builder: the two it knows and one it
\* does not (the builders are modelled on any argument; argparse's choices and
\* the radio buttons of the GUI, which offer only the first two, are not)
Providers == {"openai", "whisper-local", "azure"}

Backends ==
    { [kind |-> "ctor_raises"], [kind |-> "raises"],
      [kind |-> "text", text |-> None, language |-> ""] }
    \cup { [kind |-> "text", text |-> Str(t), language |-> "en"] :
             t \in { <<>>, <<" ">>, <<"h","i">>, <<" ","h","i","h","i"," ">> } }

TokenizerModels == {"", "text-davinci-003", "my-finetune"}

EncodingNames == {"", "p50k_base", "bogus"}

\* the endpoint behaviours an invocation is tried against
PipelineEndpoints ==
    { [kind |-> "transport_error"], [kind |-> "http_error"], [kind |-> "not_json"],
      [kind |-> "json", response |-> Str(<<" ">>)],
      [kind |-> "json", response |->
          Str(<<"-"," ","x","\n">> \o <<"A","n","s","w","e","r",":"," ","x">>)] }

Inputs ==
    [binding : Bindings, provider : Providers, backend : Backends,
     tokenizer_model : TokenizerModels, encoding_name : EncodingNames,
     summarize : {"false", "true"}, ollama_model : {"", "mistral"},
     ollama : PipelineEndpoints]

Init ==
    /\ inp \in Inputs
    /\ pc = "build"
    /\ calls = <<>>
    /\ transcriber = None
    /\ transcription = None
    /\ tokenizer = None
    /\ token_result = None
    /\ summary_result = None
    /\ diag = <<>>
    /\ outcome = None
    /\ SumIdle
    /\ TokIdle
    /\ ProvIdle
    /\ CapIdle
    /\ RecIdle

\* the handler ends: what it delivers and the diagnostics it surfaces
Finish(o, d) ==
    /\ pc' = "done"
    /\ outcome' = o
    /\ diag' = diag \o d

\* an exception that leaves app.main: the interpreter prints the traceback
CliUncaught(exc) == [kind |-> "crash", exc |-> exc.exc, msg |-> exc.msg]

\* an exception that leaves _process_audio ends the worker thread
GuiUncaught(exc) == [kind |-> "thread_died", exc |-> exc.exc, msg |-> exc.msg]

\* an exception that leaves transcribe_audio: FastAPI answers an
\* HTTPException with its status and detail, anything else with 500
HttpUncaught(exc) ==
    IF exc.exc = "HTTPException"
    THEN [kind |-> "http_error", status |-> exc.status, detail |-> exc.msg]
    ELSE [kind |-> "http_error", status |-> 500, detail |-> <<"Internal Server Error">>]

\* the values a finished invocation reports: TranscriptionResponse in
\* transcribe_audio; the same values are logged by main and printed by
\* _process_audio
PipelineResult(tr, tok, sm) ==
    [transcript |-> tr.text,
     language |-> tr.language,
     tokens |-> tok.tokens,
     token_count |-> TokenizationResult_count(tok),
     encoding_name |-> tok.encoding_name,
     summary |-> IF sm.kind = "SummaryResult" THEN Str(sm.summary) ELSE None,
     answer |-> IF sm.kind = "SummaryResult" THEN Str(sm.answer) ELSE None]

\* whether a call of the builder reached a provider's constructor
Constructed(t) == t.kind = "transcriber" \/ t.exc = "BackendError"

Logged(t) == IF Constructed(t) THEN Append(calls, "construct") ELSE calls

(* app.main *)

CliBuild ==
    /\ inp.binding = "cli" /\ pc = "build"
    /\ LET t == build_transcriber(inp.provider, inp.backend)
       IN  /\ calls' = Logged(t)
           /\ IF t.kind = "raise"
              THEN Finish(CliUncaught(t), <<>>) /\ UNCHANGED transcriber
              ELSE /\ transcriber' = t
                   /\ pc' = "transcribe"
                   /\ UNCHANGED <<outcome, diag>>
    /\ UNCHANGED <<inp, transcription, tokenizer, token_result, summary_result>>
    /\ UNCHANGED nonPipeVars

\* main without the `return 1` of its except clause
CliTranscribeNoReturn ==
    /\ inp.binding = "cli" /\ pc = "transcribe"
    /\ LET r == Transcribe(transcriber, inp.backend)
       IN  /\ calls' = Append(calls, "transcribe")
           /\ transcription' = r
           /\ IF r.kind = "raise" /\ r.exc = "SpeechToTextError"
              THEN /\ pc' = "tokenize"
                   /\ diag' = Append(diag, <<"Transcription failed">> \o r.msg)
                   /\ UNCHANGED outcome
              ELSE IF r.kind = "raise"
              THEN Finish(CliUncaught(r), <<>>)
              ELSE pc' = "tokenize" /\ UNCHANGED <<outcome, diag>>
    /\ UNCHANGED <<inp, transcriber, tokenizer, token_result, summary_result>>
    /\ UNCHANGED nonPipeVars

CliTranscribe ==
    /\ inp.binding = "cli" /\ pc = "transcribe"
    /\ LET r == Transcribe(transcriber, inp.backend)
       IN  /\ calls' = Append(calls, "transcribe")
           /\ transcription' = r
           /\ IF r.kind = "raise" /\ r.exc = "SpeechToTextError"
              THEN Finish([kind |-> "exit", code |-> 1],
                          << <<"Transcription failed">> \o r.msg >>)
              ELSE IF r.kind = "raise"
              THEN Finish(CliUncaught(r), <<>>)
              ELSE pc' = "tokenize" /\ UNCHANGED <<outcome, diag>>
    /\ UNCHANGED <<inp, transcriber, tokenizer, token_result, summary_result>>
    /\ UNCHANGED nonPipeVars

CliTokenize ==
    /\ inp.binding = "cli" /\ pc = "tokenize"
    /\ LET tk == LLMTokenizer_init(inp.tokenizer_model, inp.encoding_name)
       IN  /\ calls' = Append(calls, "tokenize")
           /\ tokenizer' = tk
           /\ IF tk.kind = "raise"
              THEN Finish(CliUncaught(tk), <<>>) /\ UNCHANGED token_result
              ELSE /\ token_result' = LLMTokenizer_encode(tk, transcription.text)
                   /\ pc' = "summarize"
                   /\ UNCHANGED <<outcome, diag>>
    /\ UNCHANGED <<inp, transcriber, transcription, summary_result>>
    /\ UNCHANGED nonPipeVars

CliSummarize ==
    /\ inp.binding = "cli" /\ pc = "summarize"
    /\ IF inp.summarize = "true"
       THEN LET r == summarize_with_ollama(transcription.text, inp.ollama_model, inp.ollama)
            IN  /\ calls' = Append(calls, "summarize")
                /\ summary_result' = r
                /\ IF r.kind = "raise" /\ r.exc = "SummarizationError"
                   THEN Finish([kind |-> "result", code |-> 0,
                                result |-> PipelineResult(transcription, token_result, None)],
                               << <<"Summarization failed">> \o r.msg >>)
                   ELSE IF r.kind = "raise"
                   THEN Finish(CliUncaught(r), <<>>)
                   ELSE Finish([kind |-> "result", code |-> 0,
                                result |-> PipelineResult(transcription, token_result, r)],
                               <<>>)
       ELSE /\ Finish([kind |-> "result", code |-> 0,
                       result |-> PipelineResult(transcription, token_result, None)], <<>>)
            /\ UNCHANGED <<calls, summary_result>>
    /\ UNCHANGED <<inp, transcriber, transcription, tokenizer, token_result>>
    /\ UNCHANGED nonPipeVars

(* AudioGuiApp._process_audio *)

GuiBuild ==
    /\ inp.binding = "gui" /\ pc = "build"
    /\ LET t == _build_transcriber(inp.provider, inp.backend)
       IN  /\ calls' = Logged(t)
           /\ IF t.kind = "raise"
              THEN /\ Finish([kind |-> "failed", status |-> "Transcription error."],
                             << <<"Unexpected transcription error">> \o t.msg >>)
                   /\ UNCHANGED transcriber
              ELSE /\ transcriber' = t
                   /\ pc' = "transcribe"
                   /\ UNCHANGED <<outcome, diag>>
    /\ UNCHANGED <<inp, transcription, tokenizer, token_result, summary_result>>
    /\ UNCHANGED nonPipeVars

GuiTranscribe ==
    /\ inp.binding = "gui" /\ pc = "transcribe"
    /\ LET r == Transcribe(transcriber, inp.backend)
       IN  /\ calls' = Append(calls, "transcribe")
           /\ transcription' = r
           /\ IF r.kind = "raise" /\ r.exc = "SpeechToTextError"
              THEN Finish([kind |-> "failed", status |-> "Transcription failed."],
                          << <<"Transcription failed">> \o r.msg >>)
              ELSE IF r.kind = "raise"
              THEN Finish([kind |-> "failed", status |-> "Transcription error."],
                          << <<"Unexpected transcription error">> \o r.msg >>)
              ELSE pc' = "tokenize" /\ UNCHANGED <<outcome, diag>>
    /\ UNCHANGED <<inp, transcriber, tokenizer, token_result, summary_result>>
    /\ UNCHANGED nonPipeVars

GuiTokenize ==
    /\ inp.binding = "gui" /\ pc = "tokenize"
    /\ LET tk == LLMTokenizer_init(inp.tokenizer_model, inp.encoding_name)
       IN  /\ calls' = Append(calls, "tokenize")
           /\ tokenizer' = tk
           /\ IF tk.kind = "raise"
              THEN Finish(GuiUncaught(tk), <<>>) /\ UNCHANGED token_result
              ELSE /\ token_result' = LLMTokenizer_encode(tk, transcription.text)
                   /\ pc' = "summarize"
                   /\ UNCHANGED <<outcome, diag>>
    /\ UNCHANGED <<inp, transcriber, transcription, summary_result>>
    /\ UNCHANGED nonPipeVars

GuiSummarize ==
    /\ inp.binding = "gui" /\ pc = "summarize"
    /\ IF inp.summarize = "true"
       THEN LET r == summarize_with_ollama(transcription.text, inp.ollama_model, inp.ollama)
            IN  /\ calls' = Append(calls, "summarize")
                /\ summary_result' = r
                /\ IF r.kind = "raise" /\ r.exc = "SummarizationError"
                   THEN Finish([kind |-> "result", status |-> "Done.",
                                result |-> PipelineResult(transcription, token_result, None)],
                               << <<"Summarization failed">> \o r.msg >>)
                   ELSE IF r.kind = "raise"
                   THEN Finish(GuiUncaught(r), <<>>)
                   ELSE Finish([kind |-> "result", status |-> "Done.",
                                result |-> PipelineResult(transcription, token_result, r)],
                               <<>>)
       ELSE /\ Finish([kind |-> "result", status |-> "Done.",
                       result |-> PipelineResult(transcription, token_result, None)], <<>>)
            /\ UNCHANGED <<calls, summary_result>>
    /\ UNCHANGED <<inp, transcriber, transcription, tokenizer, token_result>>
    /\ UNCHANGED nonPipeVars

(* web_server.transcribe_audio *)

HttpSelect ==
    /\ inp.binding = "http" /\ pc = "build"
    /\ LET t == _select_transcriber(inp.provider, inp.backend)
       IN  /\ calls' = Logged(t)
           /\ IF t.kind = "raise"
              THEN Finish(HttpUncaught(t), <<>>) /\ UNCHANGED transcriber
              ELSE /\ transcriber' = t
                   /\ pc' = "transcribe"
                   /\ UNCHANGED <<outcome, diag>>
    /\ UNCHANGED <<inp, transcription, tokenizer, token_result, summary_result>>
    /\ UNCHANGED nonPipeVars

HttpTranscribe ==
    /\ inp.binding = "http" /\ pc = "transcribe"
    /\ LET r == Transcribe(transcriber, inp.backend)
       IN  /\ calls' = Append(calls, "transcribe")
           /\ transcription' = r
           /\ IF r.kind = "raise" /\ r.exc = "SpeechToTextError"
              THEN Finish(HttpUncaught(HTTPException(500, r.msg)), <<>>)
              ELSE IF r.kind = "raise"
              THEN Finish(HttpUncaught(r), <<>>)
              ELSE pc' = "tokenize" /\ UNCHANGED <<outcome, diag>>
    /\ UNCHANGED <<inp, transcriber, tokenizer, token_result, summary_result>>
    /\ UNCHANGED nonPipeVars

HttpTokenize ==
    /\ inp.binding = "http" /\ pc = "tokenize"
    /\ LET tk == LLMTokenizer_init(inp.tokenizer_model, inp.encoding_name)
       IN  /\ calls' = Append(calls, "tokenize")
           /\ tokenizer' = tk
           /\ IF tk.kind = "raise"
              THEN Finish(HttpUncaught(tk), <<>>) /\ UNCHANGED token_result
              ELSE /\ token_result' = LLMTokenizer_encode(tk, transcription.text)
                   /\ pc' = "summarize"
                   /\ UNCHANGED <<outcome, diag>>
    /\ UNCHANGED <<inp, transcriber, transcription, summary_result>>
    /\ UNCHANGED nonPipeVars

HttpSummarize ==
    /\ inp.binding = "http" /\ pc = "summarize"
    /\ IF _normalize_bool(inp.summarize)
       THEN LET r == summarize_with_ollama(transcription.text, inp.ollama_model, inp.ollama)
            IN  /\ calls' = Append(calls, "summarize")
                /\ summary_result' = r
                /\ IF r.kind = "raise" /\ r.exc = "SummarizationError"
                   THEN Finish(HttpUncaught(HTTPException(502, r.msg)), <<>>)
                   ELSE IF r.kind = "raise"
                   THEN Finish(HttpUncaught(r), <<>>)
                   ELSE Finish([kind |-> "result", status |-> 200,
                                result |-> PipelineResult(transcription, token_result, r)],
                               <<>>)
       ELSE /\ Finish([kind |-> "result", status |-> 200,
                       result |-> PipelineResult(transcription, token_result, None)], <<>>)
            /\ UNCHANGED <<calls, summary_result>>
    /\ UNCHANGED <<inp, transcriber, transcription, tokenizer, token_result>>
    /\ UNCHANGED nonPipeVars

Next ==
    \/ CliBuild \/ CliTranscribe \/ CliTokenize \/ CliSummarize
    \/ GuiBuild \/ GuiTranscribe \/ GuiTokenize \/ GuiSummarize
    \/ HttpSelect \/ HttpTranscribe \/ HttpTokenize \/ HttpSummarize

Spec == Init /\ [][Next]_vars

----------------------------------------------------------------------------
(* Claims about the pipeline, checked under Spec *)

Has(event) == \E k \in DOMAIN calls : calls[k] = event

TranscribeFailed ==
    transcription.kind = "raise" /\ transcription.exc = "SpeechToTextError"

\* C1: in every front end the stages run in the order transcribe, tokenize,
\* summarize: the tokenizer is invoked only after transcribe has returned a
\* result, the summarizer only after tokenization has completed; when
\* transcribe raises SpeechToTextError the invocation ends with no result and
\* neither the tokenizer nor the summarizer is invoked.
C1_StagesInOrder ==
    /\ \A k \in DOMAIN calls :
          /\ calls[k] = "tokenize" =>
                /\ \E j \in 1..(k - 1) : calls[j] = "transcribe"
                /\ transcription.kind = "TranscriptionResult"
          /\ calls[k] = "summarize" =>
                /\ \E j \in 1..(k - 1) : calls[j] = "tokenize"
                /\ token_result.kind = "TokenizationResult"
    /\ TranscribeFailed =>
          /\ pc = "done"
          /\ ~Has("tokenize")
          /\ ~Has("summarize")
          /\ outcome.kind # "result"

\* C1 witness: a web invocation whose transcribe raised SpeechToTextError has ended
C1_Witness ==
    /\ inp.binding = "http"
    /\ pc = "done"
    /\ TranscribeFailed
    /\ calls = <<"construct", "transcribe">>

\* C2: when summarization is requested and raises SummarizationError, the
\* invocation still completes and delivers the transcript, the token list, the
\* token count and the encoding name, with summary and answer absent and the
\* failure surfaced as a diagnostic, in every front end.
C2_SummaryFailureStillDelivers ==
    (/\ pc = "done"
     /\ summary_result.kind = "raise"
     /\ summary_result.exc = "SummarizationError") =>
        /\ outcome.kind = "result"
        /\ outcome.result.transcript = transcription.text
        /\ outcome.result.tokens = token_result.tokens
        /\ outcome.result.token_count = Len(token_result.tokens)
        /\ outcome.result.encoding_name = token_result.encoding_name
        /\ outcome.result.summary = None
        /\ outcome.result.answer = None
        /\ diag # <<>>

\* C3: no provider returns a TranscriptionResult whose text is empty or
\* whitespace-only; a missing, empty or whitespace-only backend text makes
\* transcribe raise SpeechToTextError.
C3_NoBlankTranscript ==
    /\ transcription.kind = "TranscriptionResult" => Strip(transcription.text) # <<>>
    /\ (/\ transcription # None
        /\ inp.backend.kind = "text"
        /\ (inp.backend.text = None \/ Strip(inp.backend.text.val) = <<>>)) =>
          TranscribeFailed

\* C4: for either provider, a failure of the backend during transcribe reaches
\* the caller as SpeechToTextError carrying the cause.
C4_BackendFailureWrapped ==
    (transcription # None /\ inp.backend.kind = "raises") =>
        /\ TranscribeFailed
        /\ transcription.cause # "None"

Supported == {"openai", "whisper-local"}

\* C8: an unsupported provider makes provider selection fail at once with a
\* configuration error that names the provider, before any provider is
\* constructed or called and before any tokenizer or summarizer call, and the
\* invocation produces no result: HTTP 400 in the web binding, ValueError from
\* the builders of the CLI and the GUI.
C8_UnsupportedProviderFailsFast ==
    inp.provider \notin Supported =>
        /\ calls = <<>>
        /\ pc \in {"build", "done"}
        /\ pc = "done" =>
              /\ outcome.kind # "result"
              /\ inp.binding = "http" =>
                    /\ outcome.kind = "http_error"
                    /\ outcome.status = 400
                    /\ outcome.detail = <<"Unsupported provider: ", inp.provider>>
              /\ inp.binding = "cli" =>
                    /\ outcome.kind = "crash"
                    /\ outcome.exc = "ValueError"
                    /\ outcome.msg = <<"Unsupported provider: ", inp.provider>>
              /\ inp.binding = "gui" =>
                    /\ outcome.kind = "failed"
                    /\ diag = << <<"Unexpected transcription error",
                                   "Unsupported provider: ", inp.provider>> >>

\* C8 witness: a web invocation with an unsupported provider has ended
C8_Witness ==
    /\ inp.provider \notin Supported
    /\ inp.binding = "http"
    /\ pc = "done"

\* C9: LLMTokenizer chooses its encoding by priority: an explicit encoding
\* name is used as given, and construction fails when it is unknown, whatever
\* the model; otherwise the model (by default "gpt-4o-mini") decides; an
\* unknown model gives "cl100k_base", so without an explicit encoding name
\* construction never fails.
C9_EncodingPriority ==
    tokenizer # None =>
        LET target   == IF inp.tokenizer_model = "" THEN "gpt-4o-mini"
                        ELSE inp.tokenizer_model
            resolved == encoding_for_model(target)
        IN  IF inp.encoding_name # ""
            THEN IF inp.encoding_name \in KnownEncodings
                 THEN /\ tokenizer.kind = "LLMTokenizer"
                      /\ tokenizer.encoding_name = inp.encoding_name
                 ELSE tokenizer.kind = "raise"
            ELSE /\ tokenizer.kind = "LLMTokenizer"
                 /\ tokenizer.encoding_name =
                       IF resolved.kind = "raise" THEN "cl100k_base" ELSE resolved.name

\* C9 witness: a tokenizer built for an unknown model with no encoding name
C9_Witness ==
    /\ tokenizer.kind = "LLMTokenizer"
    /\ inp.encoding_name = ""
    /\ inp.tokenizer_model \notin KnownModels \cup {""}

\* C10: the token count is the length of the token list: count() of every
\* TokenizationResult is len(tokens), and every TranscriptionResponse of the
\* web operation has token_count equal to the number of its tokens and
\* encoding_name naming the encoding that produced them.
C10_CountIsLength ==
    /\ token_result # None => TokenizationResult_count(token_result) = Len(token_result.tokens)
    /\ (inp.binding = "http" /\ outcome.kind = "result") =>
          /\ outcome.result.token_count = Len(outcome.result.tokens)
          /\ outcome.result.encoding_name = tokenizer.encoding.name
          /\ outcome.result.tokens =
                Encoding_encode([kind |-> "Encoding", name |-> outcome.result.encoding_name],
                               outcome.result.transcript)

\* C10 witness: a web response that carries several tokens
C10_Witness ==
    /\ inp.binding = "http"
    /\ outcome.kind = "result"
    /\ Len(outcome.result.tokens) >= 2

----------------------------------------------------------------------------
(* The summarization client on its own: every endpoint behaviour, with the *)
(* reply texts built from a few pieces that exercise the parser.           *)

MaxChunks == 4

Chunks ==
    << <<"A","n","s","w","e","r",":">>,
       <<"a","n","s","w","e","r",":">>,
       <<"x">>,
       <<" ">>,
       <<"\n">>,
       <<"-">>,
       HEADING,
       <<"I_DOT">> >>

ReplyTexts ==
    { Concat([i \in DOMAIN f |-> Chunks[f[i]]]) :
        f \in UNION { [1..k -> 1..Len(Chunks)] : k \in 0..MaxChunks } }

Endpoints ==
    { [kind |-> "transport_error"], [kind |-> "http_error"], [kind |-> "not_json"],
      [kind |-> "json", response |-> None] }
    \cup { [kind |-> "json", response |-> Str(t)] : t \in ReplyTexts }

\* the transcript handed to the summarizer when it is exercised on its own
SOME_TRANSCRIPT == <<"h","i">>


InitSum ==
    /\ reply \in Endpoints
    /\ sum_out = None
    /\ split_out = None
    /\ norm_out = None
    /\ PipeIdle
    /\ TokIdle
    /\ ProvIdle
    /\ CapIdle
    /\ RecIdle

\* one call of summarize_with_ollama against the endpoint
CallSummarize ==
    /\ sum_out = None
    /\ sum_out' = summarize_with_ollama(SOME_TRANSCRIPT, "", reply)
    /\ UNCHANGED <<reply, split_out, norm_out>>
    /\ UNCHANGED nonSumVars

\* one call of _split_summary_answer on a non-empty raw reply
CallSplit ==
    /\ split_out = None
    /\ reply.kind = "json"
    /\ reply.response.kind = "str"
    /\ reply.response.val # <<>>
    /\ split_out' = [kind |-> "split"] @@ _split_summary_answer(reply.response.val)
    /\ UNCHANGED <<reply, sum_out, norm_out>>
    /\ UNCHANGED nonSumVars

\* _normalize_summary on a raw text, and again on what it returned
CallNormalize ==
    /\ norm_out = None
    /\ reply.kind = "json"
    /\ reply.response.kind = "str"
    /\ LET once == _normalize_summary(reply.response.val)
       IN  norm_out' = [kind |-> "normalized", once |-> once, twice |-> _normalize_summary(once)]
    /\ UNCHANGED <<reply, sum_out, split_out>>
    /\ UNCHANGED nonSumVars

NextSum == CallSummarize \/ CallSplit \/ CallNormalize

SpecSum == InitSum /\ [][NextSum]_vars

----------------------------------------------------------------------------
(* Claims about the summarization client, checked under SpecSum *)

\* C5: summarize_with_ollama either returns a SummaryResult or raises
\* SummarizationError; a transport error, an HTTP error status and a reply whose
\* "response" is missing or empty after trimming each raise SummarizationError
\* (with the cause attached where there is one); a SummaryResult never has an
\* empty summary.
C5_ReturnsOrSummarizationError ==
    sum_out # None =>
        /\ \/ sum_out.kind = "SummaryResult" /\ sum_out.summary # <<>>
           \/ sum_out.kind = "raise" /\ sum_out.exc = "SummarizationError"
        /\ reply.kind \in {"transport_error", "http_error"} =>
              /\ sum_out.kind = "raise"
              /\ sum_out.exc = "SummarizationError"
              /\ sum_out.cause # "None"
        /\ (reply.kind = "json" /\ (reply.response = None \/ Strip(reply.response.val) = <<>>)) =>
              /\ sum_out.kind = "raise"
              /\ sum_out.exc = "SummarizationError"

\* the positions of r where the 7 characters that follow read "answer:" in any case
MarkerPositions(r) ==
    {i \in 0..(Len(r) - Len(ANSWER_MARKER)) :
        Lower(SubSeq(r, i + 1, i + Len(ANSWER_MARKER))) = ANSWER_MARKER}

\* the reference split of C6
ReferenceSplit(r) ==
    LET i     == Min(MarkerPositions(r))
        after == Strip(Slice(r, i + Len(ANSWER_MARKER), Len(r)))
    IN  IF MarkerPositions(r) = {}
        THEN [summary |-> _normalize_summary(r), answer |-> NA]
        ELSE [summary |-> _normalize_summary(Slice(r, 0, i)),
              answer  |-> IF after = <<>> THEN NA ELSE after]

\* C6: for every non-empty raw reply r, _split_summary_answer(r) equals the
\* reference split at the first case-insensitive occurrence of "answer:" in r.
C6_SplitEqualsReference ==
    split_out # None =>
        /\ split_out.summary = ReferenceSplit(reply.response.val).summary
        /\ split_out.answer = ReferenceSplit(reply.response.val).answer

\* the lines of a text, as separated by "\n"
RECURSIVE LinesOf(_)
LinesOf(s) ==
    LET brk == {i \in 1..Len(s) : s[i] = "\n"}
    IN  IF brk = {} THEN <<s>>
        ELSE <<SubSeq(s, 1, Min(brk) - 1)>> \o LinesOf(Slice(s, Min(brk), Len(s)))

\* C7: every SummaryResult returned has a summary whose first line is the
\* heading "Summary:" and whose other lines are non-blank and start with "-",
\* and a non-empty answer.
C7_SummaryShape ==
    (sum_out # None /\ sum_out.kind = "SummaryResult") =>
        LET lines == LinesOf(sum_out.summary)
        IN  /\ lines[1] = HEADING
            /\ \A k \in 2..Len(lines) :
                  /\ Strip(lines[k]) # <<>>
                  /\ StartsWith(lines[k], <<"-">>)
            /\ sum_out.answer # <<>>

\* C18: _normalize_summary is idempotent: normalizing what it returned gives
\* the same text again.
C18_NormalizeIdempotent ==
    norm_out # None => norm_out.twice = norm_out.once

----------------------------------------------------------------------------
(* The tokenizer on its own: LLMTokenizer.encode, then LLMTokenizer.decode of
   the tokens it returned *)

MaxPieces == 3

\* the pieces the texts are made of: plain words, accented, CJK and emoji
\* characters, the text of a special token and beginnings of it
Pieces ==
    << <<"h", "i">>, <<" ">>, <<"E_ACUTE">>, <<"ZH">>, <<"GRIN">>, ENDOFTEXT, <<"<", "|">>,
       <<"t", "e", "x", "t">> >>

TokTexts ==
    { Concat([i \in DOMAIN f |-> Pieces[f[i]]]) :
        f \in UNION { [1..k -> 1..Len(Pieces)] : k \in 0..MaxPieces } }

\* the tokenizers that can be constructed
Tokenizers ==
    { tk \in { LLMTokenizer_init(m, e) : m \in TokenizerModels, e \in EncodingNames } :
        tk.kind = "LLMTokenizer" }

InitTok ==
    /\ tok_in \in [text : TokTexts, tk : Tokenizers]
    /\ tok_out = None
    /\ dec_out = None
    /\ PipeIdle
    /\ SumIdle
    /\ ProvIdle
    /\ CapIdle
    /\ RecIdle

\* tokenizer.encode(text)
CallEncode ==
    /\ tok_in # Idle
    /\ tok_out = None
    /\ tok_out' = LLMTokenizer_encode(tok_in.tk, tok_in.text)
    /\ UNCHANGED <<tok_in, dec_out>>
    /\ UNCHANGED <<pipeVars, sumVars, provVars, capVars, recVars>>

\* tokenizer.decode(result.tokens)
CallDecode ==
    /\ tok_out # None
    /\ tok_out.kind = "TokenizationResult"
    /\ dec_out = None
    /\ dec_out' = Str(LLMTokenizer_decode(tok_in.tk, tok_out.tokens))
    /\ UNCHANGED <<tok_in, tok_out>>
    /\ UNCHANGED <<pipeVars, sumVars, provVars, capVars, recVars>>

NextTok == CallEncode \/ CallDecode

SpecTok == InitTok /\ [][NextTok]_vars

\* C11: encode rejects no text and gives the empty text no token (count 0),
\* and decoding the tokens encode returned gives back the text it was given,
\* character for character, whatever the text holds (nothing, accented, CJK or
\* emoji characters, the text of a special token).
C11_RoundTrip ==
    /\ tok_out # None =>
          /\ tok_out.kind = "TokenizationResult"
          /\ tok_in.text = <<>> =>
                tok_out.tokens = <<>> /\ TokenizationResult_count(tok_out) = 0
    /\ dec_out # None => dec_out = Str(tok_in.text)

\* a text with an emoji cut into two tokens and the text of a special token
\* has been encoded and decoded
C11_Witness ==
    /\ dec_out # None
    /\ Find(tok_in.text, ENDOFTEXT) # -1
    /\ Find(tok_in.text, <<"GRIN">>) # -1
    /\ \E k \in DOMAIN tok_out.tokens :
          tok_out.tokens[k] = SpecialTokenId(tok_in.tk.encoding.name, 1)
    /\ Len(tok_out.tokens) > Len(tok_in.text) - Len(ENDOFTEXT) + 1

----------------------------------------------------------------------------
(* A provider on its own: one call of transcribe(audio, sample_rate), step by
   step *)

MaxFrames == 2

\* the channel counts of the buffers: mono and stereo
ChannelCounts == {1, 2}

\* float32 samples on the 16-bit PCM grid, in half steps
Samples == {-2, 0, 2}

\* the buffers the front ends hand a provider: float32, frames x channels
\* (MicrophoneRecorder.record reshapes to it, StreamingMicrophoneRecorder.stop
\* concatenates chunks of it, _load_audio_bytes adds the channel axis)
AudioBuffers ==
    { [dtype |-> "float32", shape |-> <<n, c>>, data |-> d] :
        <<n, c, d>> \in
            UNION { {<<n, c, d>> : d \in [1..n -> [1..c -> Samples]]} :
                      n \in 0..MaxFrames, c \in ChannelCounts } }

TMP_WAV == "tmp.wav"

\* what one call meets: the provider, the buffer, the backend's behaviour
\* and whether soundfile manages to write the buffer to the temporary file
ProviderInputs ==
    { [variant |-> "whisper-local", audio |-> a, backend |-> b, wav_written |-> TRUE] :
        a \in AudioBuffers, b \in {x \in Backends : x.kind # "ctor_raises"} }
    \cup
    { [variant |-> "openai", audio |-> a, backend |-> b, wav_written |-> w] :
        a \in AudioBuffers,
        b \in {x \in Backends : x.kind # "ctor_raises"}, w \in BOOLEAN }

InitProv ==
    /\ prov_in \in ProviderInputs
    /\ prov_pc = "enter"
    /\ tmp_files = {}
    /\ model_audio = None
    /\ prov_out = None
    /\ PipeIdle
    /\ SumIdle
    /\ TokIdle
    /\ CapIdle
    /\ RecIdle

\* OpenAIWhisperTranscriber.transcribe: NamedTemporaryFile(suffix=".wav",
\* delete=False) creates the file
OpenAICreateTemp ==
    /\ prov_pc = "enter" /\ prov_in.variant = "openai"
    /\ tmp_files' = tmp_files \cup {TMP_WAV}
    /\ prov_pc' = "write"
    /\ UNCHANGED <<prov_in, model_audio, prov_out>>
    /\ UNCHANGED <<pipeVars, sumVars, tokVars, capVars, recVars>>

\* sf.write(tmp_path, audio, sample_rate) inside the with block and before
\* the try: when it raises, the with block closes the file, which delete=False
\* keeps, and the exception leaves transcribe
OpenAIWriteWav ==
    /\ prov_pc = "write"
    /\ IF prov_in.wav_written
       THEN prov_pc' = "request" /\ UNCHANGED prov_out
       ELSE /\ prov_pc' = "done"
            /\ prov_out' = Raise("LibsndfileError", <<"Error writing file">>, "None")
    /\ UNCHANGED <<prov_in, tmp_files, model_audio>>
    /\ UNCHANGED <<pipeVars, sumVars, tokVars, capVars, recVars>>

\* the try block (the request), its finally (tmp_path.unlink(missing_ok=True))
\* and the check of the response's text
OpenAIRequest ==
    /\ prov_pc = "request"
    /\ tmp_files' = tmp_files \ {TMP_WAV}
    /\ prov_out' = OpenAIWhisperTranscriber_transcribe(prov_in.backend)
    /\ prov_pc' = "done"
    /\ UNCHANGED <<prov_in, model_audio>>
    /\ UNCHANGED <<pipeVars, sumVars, tokVars, capVars, recVars>>

\* WhisperLocalTranscriber.transcribe: the buffer is collapsed to mono
LocalCollapse ==
    /\ prov_pc = "enter" /\ prov_in.variant = "whisper-local"
    /\ model_audio' = WhisperLocalTranscriber_mono(prov_in.audio)
    /\ prov_pc' = "model"
    /\ UNCHANGED <<prov_in, tmp_files, prov_out>>
    /\ UNCHANGED <<pipeVars, sumVars, tokVars, capVars, recVars>>

\* self._model.transcribe(audio, fp16=False) and the check of its text
LocalModel ==
    /\ prov_pc = "model"
    /\ prov_out' = WhisperLocalTranscriber_transcribe(prov_in.backend)
    /\ prov_pc' = "done"
    /\ UNCHANGED <<prov_in, tmp_files, model_audio>>
    /\ UNCHANGED <<pipeVars, sumVars, tokVars, capVars, recVars>>

NextProv == OpenAICreateTemp \/ OpenAIWriteWav \/ OpenAIRequest \/ LocalCollapse \/ LocalModel

SpecProv == InitProv /\ [][NextProv]_vars

\* C12: the local Whisper provider hands the model a one-dimensional array of
\* the buffer's dtype with exactly one sample per frame of the buffer, each
\* sample the average of its frame's channel values (channels times the sample
\* is the sum of the frame); a stereo frame whose two channels are equal gives
\* exactly that value.
C12_MonoCollapse ==
    model_audio # None =>
        LET a == prov_in.audio
        IN  /\ ndim(model_audio) = 1
            /\ model_audio.shape = <<a.shape[1]>>
            /\ Len(model_audio.data) = Len(a.data)
            /\ model_audio.dtype = a.dtype
            /\ \A k \in 1..Len(a.data) :
                  /\ a.shape[2] * model_audio.data[k] = SumSeq(a.data[k])
                  /\ (a.shape[2] = 2 /\ a.data[k][1] = a.data[k][2])
                        => model_audio.data[k] = a.data[k][1]

\* a stereo buffer of two frames, one with different channel values and one
\* with equal non-zero ones, has been collapsed
C12_Witness ==
    /\ model_audio # None
    /\ prov_in.audio.shape = <<2, 2>>
    /\ prov_in.audio.data[1][1] # prov_in.audio.data[1][2]
    /\ prov_in.audio.data[2][1] = prov_in.audio.data[2][2]
    /\ prov_in.audio.data[2][1] # 0
    /\ model_audio.data[1] # prov_in.audio.data[1][1]

\* C19: once transcribe of the OpenAI provider has ended, by returning or by
\* raising (the backend failed, the transcript was empty, the buffer could not
\* be written to the file), the temporary WAV file it created is gone.
C19_NoTempFileLeft ==
    (prov_pc = "done" /\ prov_in.variant = "openai") => TMP_WAV \notin tmp_files

----------------------------------------------------------------------------
(* src/src/audio_capture.py, MicrophoneRecorder, and app.main from its first
   step: the fixed-duration capture that precedes the pipeline *)

\* int(duration * sample_rate), rounding toward zero; the duration is counted
\* in microseconds
FramesOf(duration_us, sample_rate) ==
    LET product == duration_us * sample_rate
    IN  IF product >= 0 THEN product \div 1000000 ELSE -((-product) \div 1000000)

\* MicrophoneRecorder.record(duration): what it returns or raises, and the
\* operations it makes on the input stream.  sd.InputStream(...) raises when
\* the device cannot be opened at the configured sample rate.
MicrophoneRecorder_record(duration_us, config, device_ok) ==
    LET frames == FramesOf(duration_us, config.sample_rate)
    IN  IF frames <= 0
        THEN [value |-> Raise("ValueError", <<"duration must be positive">>, "None"),
              log |-> <<>>]
        ELSE IF ~(device_ok /\ config.sample_rate > 0)
        THEN [value |-> Raise("PortAudioError", <<"Error opening InputStream">>, "None"),
              log |-> <<"InputStream">>]
        ELSE [value |-> [kind |-> "ndarray", shape |-> <<frames, config.channels>>,
                         dtype |-> config.dtype],
              log |-> <<"InputStream", "start", "read", "close">>]

\* AudioCaptureConfig(sample_rate=args.sample_rate, channels=args.channels)
AudioCaptureConfig(sample_rate, channels) ==
    [sample_rate |-> sample_rate, channels |-> channels, dtype |-> "float32"]

\* --duration (a float, here in microseconds), --sample-rate and --channels
\* (any int), and whether the input device can be opened
CaptureInputs ==
    [duration_us : {-100000, -50, 0, 50, 100000},
     sample_rate : {16000, -16000},
     channels    : {1},
     device_ok   : BOOLEAN]

InitCli ==
    /\ inp \in {i \in Inputs : i.binding = "cli"}
    /\ pc = "record"
    /\ cap_in \in CaptureInputs
    /\ cap_log = <<>>
    /\ calls = <<>>
    /\ transcriber = None
    /\ transcription = None
    /\ tokenizer = None
    /\ token_result = None
    /\ summary_result = None
    /\ diag = <<>>
    /\ outcome = None
    /\ SumIdle
    /\ TokIdle
    /\ ProvIdle
    /\ RecIdle

\* app.main up to the captured buffer: recorder.record(args.duration); an
\* exception it raises leaves main
CliRecord ==
    /\ inp.binding = "cli" /\ pc = "record"
    /\ LET got == MicrophoneRecorder_record(cap_in.duration_us,
                      AudioCaptureConfig(cap_in.sample_rate, cap_in.channels),
                      cap_in.device_ok)
       IN  /\ cap_log' = cap_log \o got.log
           /\ IF got.value.kind = "raise"
              THEN Finish(CliUncaught(got.value), <<>>)
              ELSE pc' = "build" /\ UNCHANGED <<outcome, diag>>
    /\ UNCHANGED <<inp, calls, transcriber, transcription, tokenizer, token_result,
                   summary_result, cap_in>>
    /\ UNCHANGED <<sumVars, tokVars, provVars, recVars>>

NextCli == CliRecord \/ CliBuild \/ CliTranscribe \/ CliTokenize \/ CliSummarize

SpecCli == InitCli /\ [][NextCli]_vars

\* C13: when the duration asked for is zero or negative, record raises
\* ValueError("duration must be positive") without any operation on an input
\* stream, and the invocation ends there: no provider is built and no
\* transcription, tokenization or summarization call is made.
C13_NonPositiveDurationFailsFast ==
    (cap_in # Idle /\ cap_in.duration_us <= 0 /\ pc # "record") =>
        /\ outcome = [kind |-> "crash", exc |-> "ValueError",
                      msg |-> <<"duration must be positive">>]
        /\ cap_log = <<>>
        /\ calls = <<>>

----------------------------------------------------------------------------
(* src/src/audio_capture.py, StreamingMicrophoneRecorder.

   rec holds the recorder's fields (stream is self._stream, buffer is
   self._buffer, channels is self.config.channels), the position of the call
   of start() or stop() in progress (pc) and what the last call returned or
   raised (ret).  The stream is None or an InputStream that is active or not;
   the device's thread calls _callback only while the stream is active, and
   stream.stop() returns once no callback is running or will run.  A chunk is
   named by its number; it is one block of frames.

   hist records what the claims speak about: the chunks the callback has
   delivered since the last start() or stop() that succeeded (delivered), those
   the last successful stop() had to return (expected), whether the last
   successful call was start() (running), the recorder as the last call found
   it (last) and, for a call the guard refused, as it left it (left), the number of the next chunk and the stream operations that
   raised so far. *)

MaxDelivered == 2

MaxFaults == 1

\* StreamingMicrophoneRecorder.is_running
is_running == rec.stream # None

RuntimeError(msg) == Raise("RuntimeError", <<msg>>, "None")

\* what sounddevice raises when a stream operation fails
PortAudioError(msg) == Raise("PortAudioError", <<msg>>, "None")

\* whether a stream operation raises: any may, MaxFaults times in a run
Raises == IF hist.faults < MaxFaults THEN BOOLEAN ELSE {FALSE}

\* the recorder as a call finds it
Entered(op) ==
    [op |-> op, was_running |-> is_running, stream |-> rec.stream, buffer |-> rec.buffer]

\* StreamingMicrophoneRecorder.start up to the assignment of self._stream:
\* the guard, the reset of the buffer, the construction of the InputStream
StreamingMicrophoneRecorder_start ==
    /\ rec.pc = "idle"
    /\ IF rec.stream # None
       THEN /\ rec' = [rec EXCEPT !.pc = "returned",
                                  !.ret = RuntimeError("Recorder already running")]
            /\ hist' = [hist EXCEPT !.last = Entered("start"),
                                    !.left = [stream |-> rec'.stream, buffer |-> rec'.buffer]]
       ELSE \E raises \in Raises :
              /\ rec' = IF raises
                        THEN [rec EXCEPT !.buffer = <<>>, !.pc = "returned",
                                         !.ret = PortAudioError("Error opening InputStream")]
                        ELSE [rec EXCEPT !.buffer = <<>>, !.pc = "start_stream",
                                         !.stream = [kind |-> "InputStream", active |-> FALSE]]
              /\ hist' = [hist EXCEPT !.last = Entered("start"),
                                      !.faults = IF raises THEN @ + 1 ELSE @]

\* StreamingMicrophoneRecorder.start: self._stream.start(), after which start
\* returns; when it raises, self._stream keeps the stream
StartStream ==
    /\ rec.pc = "start_stream"
    /\ \E raises \in Raises :
          IF raises
          THEN /\ rec' = [rec EXCEPT !.pc = "returned",
                                     !.ret = PortAudioError("Error starting stream")]
               /\ hist' = [hist EXCEPT !.faults = @ + 1]
          ELSE /\ rec' = [rec EXCEPT !.pc = "returned", !.ret = None, !.stream.active = TRUE]
               /\ hist' = [hist EXCEPT !.running = TRUE, !.delivered = <<>>]
    /\ UNCHANGED gui
    /\ UNCHANGED OtherVars

\* StreamingMicrophoneRecorder.stop up to self._stream.stop(): the guard and
\* the stop of the stream; when that raises the stream may or may not have
\* stopped
StreamingMicrophoneRecorder_stop ==
    /\ rec.pc = "idle"
    /\ IF rec.stream = None
       THEN /\ rec' = [rec EXCEPT !.pc = "returned",
                                  !.ret = RuntimeError("Recorder not running")]
            /\ hist' = [hist EXCEPT !.last = Entered("stop"),
                                    !.left = [stream |-> rec'.stream, buffer |-> rec'.buffer]]
       ELSE \E raises \in Raises :
              /\ IF raises
                 THEN \E active \in {rec.stream.active, FALSE} :
                        rec' = [rec EXCEPT !.pc = "returned", !.stream.active = active,
                                           !.ret = PortAudioError("Error stopping stream")]
                 ELSE rec' = [rec EXCEPT !.pc = "stop_close", !.stream.active = FALSE]
              /\ hist' = [hist EXCEPT !.last = Entered("stop"),
                                      !.faults = IF raises THEN @ + 1 ELSE @]

\* StreamingMicrophoneRecorder.stop: self._stream.close(); self._stream = None
StopClose ==
    /\ rec.pc = "stop_close"
    /\ \E raises \in Raises :
          IF raises
          THEN /\ rec' = [rec EXCEPT !.pc = "returned",
                                     !.ret = PortAudioError("Error closing stream")]
               /\ hist' = [hist EXCEPT !.faults = @ + 1]
          ELSE /\ rec' = [rec EXCEPT !.pc = "stop_collect", !.stream = None]
               /\ UNCHANGED hist
    /\ UNCHANGED gui
    /\ UNCHANGED OtherVars

\* np.empty((0, channels)) and np.concatenate(chunks, axis=0): the length
\* is counted in blocks
ndarray(chunks, channels) ==
    [kind |-> "ndarray", shape |-> <<Len(chunks), channels>>, chunks |-> chunks]

\* the block under the lock that returns the buffer without emptying it
StopCollectKeepsBuffer ==
    /\ rec.pc = "stop_collect"
    /\ rec' = [rec EXCEPT !.pc = "returned", !.ret = ndarray(rec.buffer, rec.channels)]
    /\ hist' = [hist EXCEPT !.running = FALSE, !.expected = hist.delivered, !.delivered = <<>>]
    /\ UNCHANGED gui
    /\ UNCHANGED OtherVars

\* StreamingMicrophoneRecorder.stop: the block under the lock, after which
\* stop returns
StopCollect ==
    /\ rec.pc = "stop_collect"
    /\ rec' = IF rec.buffer = <<>>
              THEN [rec EXCEPT !.pc = "returned", !.ret = ndarray(<<>>, rec.channels)]
              ELSE [rec EXCEPT !.pc = "returned", !.ret = ndarray(rec.buffer, rec.channels),
                               !.buffer = <<>>]
    /\ hist' = [hist EXCEPT !.running = FALSE, !.expected = hist.delivered, !.delivered = <<>>]
    /\ UNCHANGED gui
    /\ UNCHANGED OtherVars

\* StreamingMicrophoneRecorder._callback, on the device's thread: under the
\* lock, the chunk is appended
_callback ==
    /\ rec.stream # None
    /\ rec.stream.active
    /\ hist.next_chunk <= MaxDelivered
    /\ rec' = [rec EXCEPT !.buffer = Append(@, hist.next_chunk)]
    /\ hist' = [hist EXCEPT !.next_chunk = @ + 1, !.delivered = Append(@, hist.next_chunk)]
    /\ UNCHANGED gui
    /\ UNCHANGED OtherVars

(* The recorder in the hands of any caller: start() and stop() in any order *)

NewRecorder(channels) ==
    [channels |-> channels, stream |-> None, buffer |-> <<>>, pc |-> "idle", ret |-> None]

NoHistory ==
    [delivered |-> <<>>, expected |-> <<>>, running |-> FALSE,
     last |-> [op |-> "none", was_running |-> FALSE, stream |-> None, buffer |-> <<>>],
     left |-> [stream |-> None, buffer |-> <<>>],
     next_chunk |-> 1, faults |-> 0]

InitRec ==
    /\ rec \in {NewRecorder(c) : c \in ChannelCounts}
    /\ gui = Idle
    /\ hist = NoHistory
    /\ PipeIdle
    /\ SumIdle
    /\ TokIdle
    /\ ProvIdle
    /\ CapIdle

\* recorder.start()
CallStart ==
    /\ gui = Idle
    /\ StreamingMicrophoneRecorder_start
    /\ UNCHANGED gui
    /\ UNCHANGED OtherVars

\* recorder.stop()
CallStop ==
    /\ gui = Idle
    /\ StreamingMicrophoneRecorder_stop
    /\ UNCHANGED gui
    /\ UNCHANGED OtherVars

\* the call has returned or raised; the caller goes on
CallReturned ==
    /\ gui = Idle
    /\ rec.pc = "returned"
    /\ rec' = [rec EXCEPT !.pc = "idle"]
    /\ UNCHANGED <<gui, hist>>
    /\ UNCHANGED OtherVars

NextRec ==
    CallStart \/ StartStream \/ CallStop \/ StopClose \/ StopCollect \/ CallReturned \/ _callback

SpecRec == InitRec /\ [][NextRec]_vars

----------------------------------------------------------------------------
(* src/src/gui.py, AudioGuiApp: the Record, Stop and Exit buttons, the
   recorder behind them, the worker threads and the callbacks the threads
   hand Tk with root.after(0, ...).

   gui holds is_recording, the state of the three buttons, the pending
   root.after callbacks that set the Exit button (after, oldest first, TRUE for
   "normal"), the number of worker threads alive, the handler the main thread
   is in (pc) and whether the window has been destroyed.  A handler that calls
   the recorder is taken in steps, because the device's thread runs
   meanwhile. *)

MaxPending == 2

InitGui ==
    /\ rec = NewRecorder(AudioCaptureConfig(16000, 1).channels)
    /\ gui = [is_recording |-> FALSE, record_button |-> "normal", stop_button |-> "disabled",
              exit_button |-> "normal", after |-> <<>>, workers |-> 0, pc |-> "idle",
              destroyed |-> FALSE]
    /\ hist = NoHistory
    /\ PipeIdle
    /\ SumIdle
    /\ TokIdle
    /\ ProvIdle
    /\ CapIdle

\* the main thread is in Tk's event loop and takes the user's next click
Clickable ==
    /\ gui.pc = "idle"
    /\ ~gui.destroyed
    /\ Len(gui.after) < MaxPending

\* AudioGuiApp.start_recording, a click on Record: up to recorder.start()
start_recording ==
    /\ Clickable
    /\ gui.record_button = "normal"
    /\ IF is_running
       THEN UNCHANGED <<rec, gui, hist>>
       ELSE /\ StreamingMicrophoneRecorder_start
            /\ gui' = [gui EXCEPT !.pc = "start_recording"]
    /\ UNCHANGED OtherVars

\* AudioGuiApp.start_recording once recorder.start() has returned or raised
StartReturned ==
    /\ gui.pc = "start_recording"
    /\ rec.pc = "returned"
    /\ rec' = [rec EXCEPT !.pc = "idle"]
    /\ gui' = IF rec.ret.kind = "raise"
              THEN [gui EXCEPT !.pc = "idle"]
              ELSE [gui EXCEPT !.pc = "idle", !.is_recording = TRUE,
                               !.record_button = "disabled", !.stop_button = "normal",
                               !.after = Append(@, FALSE)]
    /\ UNCHANGED hist
    /\ UNCHANGED OtherVars

\* AudioGuiApp.stop_recording, a click on Stop: up to recorder.stop()
stop_recording ==
    /\ Clickable
    /\ gui.stop_button = "normal"
    /\ IF ~is_running
       THEN UNCHANGED <<rec, gui, hist>>
       ELSE /\ StreamingMicrophoneRecorder_stop
            /\ gui' = [gui EXCEPT !.pc = "stop_recording"]
    /\ UNCHANGED OtherVars

\* AudioGuiApp.stop_recording once recorder.stop() has returned or raised:
\* an empty buffer re-enables Exit, any other starts a worker thread
StopReturned ==
    /\ gui.pc = "stop_recording"
    /\ rec.pc = "returned"
    /\ rec' = [rec EXCEPT !.pc = "idle"]
    /\ gui' = IF rec.ret.kind = "raise"
              THEN [gui EXCEPT !.pc = "idle"]
              ELSE IF rec.ret.shape[1] = 0
              THEN [gui EXCEPT !.pc = "idle", !.is_recording = FALSE,
                               !.record_button = "normal", !.stop_button = "disabled",
                               !.after = Append(@, TRUE)]
              ELSE [gui EXCEPT !.pc = "idle", !.is_recording = FALSE,
                               !.record_button = "normal", !.stop_button = "disabled",
                               !.workers = @ + 1]
    /\ UNCHANGED hist
    /\ UNCHANGED OtherVars

\* AudioGuiApp._process_audio, on a worker thread, ends: by one of its
\* returns, each after _set_exit_enabled(True), or by an exception nothing
\* catches (LLMTokenizer(...) raising), with no call of it
_process_audio ==
    /\ ~gui.destroyed
    /\ gui.workers > 0
    /\ \E returns \in BOOLEAN :
          gui' = [gui EXCEPT !.workers = @ - 1,
                             !.after = IF returns THEN Append(@, TRUE) ELSE @]
    /\ UNCHANGED <<rec, hist>>
    /\ UNCHANGED OtherVars

\* Tk runs the oldest pending callback: the setter of _set_exit_enabled
RunAfter ==
    /\ gui.pc = "idle"
    /\ ~gui.destroyed
    /\ gui.after # <<>>
    /\ gui' = [gui EXCEPT !.after = Tail(@),
                          !.exit_button = IF Head(gui.after) THEN "normal" ELSE "disabled"]
    /\ UNCHANGED <<rec, hist>>
    /\ UNCHANGED OtherVars

\* AudioGuiApp._exit_app, a click on Exit
_exit_app ==
    /\ gui.pc = "idle"
    /\ ~gui.destroyed
    /\ gui.exit_button = "normal"
    /\ gui' = [gui EXCEPT !.destroyed = TRUE]
    /\ UNCHANGED <<rec, hist>>
    /\ UNCHANGED OtherVars

NextGui ==
    \/ start_recording \/ StartStream \/ StartReturned
    \/ stop_recording \/ StopClose \/ StopCollect \/ StopReturned
    \/ _callback \/ _process_audio \/ RunAfter \/ _exit_app

SpecGui == InitGui /\ [][NextGui]_vars

----------------------------------------------------------------------------
(* Claims about the streaming recorder and the window *)

\* C14: a start() that finds the recorder running raises RuntimeError
\* "Recorder already running" and a stop() that finds it not running raises
\* RuntimeError "Recorder not running", each leaving the stream and the buffer
\* as it found them; and outside a call, is_running() is true exactly when the
\* last call that succeeded was a start(), which is what makes successful
\* starts and stops alternate.
C14_StartStopAlternate ==
    /\ (rec.pc = "returned" /\ hist.last.op = "start" /\ hist.last.was_running) =>
          /\ rec.ret = RuntimeError("Recorder already running")
          /\ hist.left = [stream |-> hist.last.stream, buffer |-> hist.last.buffer]
    /\ (rec.pc = "returned" /\ hist.last.op = "stop" /\ ~hist.last.was_running) =>
          /\ rec.ret = RuntimeError("Recorder not running")
          /\ hist.left = [stream |-> hist.last.stream, buffer |-> hist.last.buffer]
    /\ rec.pc \in {"idle", "returned"} => (is_running <=> hist.running)

\* C15: a stop() that returns gives exactly the chunks the callback delivered
\* since the start() it ends, in the order they came, whatever the device's
\* thread did meanwhile; with none delivered the array is (0, channels); and the
\* buffer is empty once stop() has returned.
C15_StopReturnsDelivered ==
    (rec.pc = "returned" /\ hist.last.op = "stop" /\ rec.ret.kind = "ndarray") =>
        /\ rec.ret.chunks = hist.expected
        /\ rec.ret.shape = <<Len(hist.expected), rec.channels>>
        /\ rec.buffer = <<>>

\* a second recording, whose only chunk came after an earlier recording had
\* returned its own, has been stopped
C15_Witness ==
    /\ rec.pc = "returned"
    /\ hist.last.op = "stop"
    /\ rec.ret.kind = "ndarray"
    /\ rec.ret.chunks = <<2>>
    /\ hist.last.buffer = <<2>>

\* C16: after a start() that failed on a recorder that was not running (the
\* construction of the stream or its start raised) is_running() is false, so
\* that the next start() is attempted and not refused.
C16_FailedStartNotRunning ==
    (rec.pc \in {"idle", "returned"} /\ hist.last.op = "start" /\ ~hist.last.was_running
        /\ rec.ret.kind = "raise") => ~is_running

\* C17: the Exit button is not enabled while a recording is in progress or a
\* worker thread is still processing; stated of the window at rest (no handler
\* running, no callback pending), which is less than the claim says.
C17_ExitDisabledWhileBusy ==
    (gui.exit_button = "normal" /\ gui.pc = "idle" /\ gui.after = <<>>) =>
        (~gui.is_recording /\ gui.workers = 0)

====
